---- MODULE Spec2Model ----
(***************************************************************************)
(* Loan default predictor: the logistic-regression scorer of               *)
(* loan_predictor.py (command line) and streamlit_app.py (dashboard).      *)
(*                                                                         *)
(* Numbers.  Coefficients, the intercept and the score are fixed-point     *)
(* integers in units of 1/SCALE (the source writes them with four          *)
(* decimals, so the table is represented exactly); feature values are      *)
(* integers.  A probability is an integer in units of 1/PSCALE, where 0    *)
(* and PSCALE stand for the doubles 0.0 and 1.0 exactly and 1..PSCALE-1    *)
(* for the doubles strictly between them, rounded to the nearest unit.     *)
(* The double's rounding of the weighted sum (about 1e-16) is not          *)
(* modelled; feature values are finite (no inf, no nan).                   *)
(***************************************************************************)
EXTENDS Integers, Sequences, FiniteSets, TLC

VARIABLES
    globals,        \* module name -> its module-level names (COEFFICIENTS, ...)
    module,         \* the module whose predict_loan_default the caller uses
    customer_data,  \* the feature dict the caller holds
    result,         \* what the call on customer_data gave (Pending before it)
    prev,           \* history: the caller's previous dict and its result
    nedits,         \* how many times the caller has changed its dict
    csv_file,       \* loan_detection.csv as the command-line program finds it
    pc,             \* where the command-line program (__main__) is
    sample_data,    \* demo_with_csv_data: the rows drawn by random.sample
    all_data,       \* demo_with_csv_data: every row of the file
    row_i,          \* demo_with_csv_data: the position of the loop in sample_data
    correct_predictions,
    console,        \* what the program has printed, as tags, in order
    uncaught,       \* the exception that ended the program, "" if none
    frames,         \* concurrent calls: caller -> the locals of its call
    overlapped      \* history: some call took a step while another was under way

scorerVars == <<module, customer_data, result, prev, nedits>>
demoVars ==
    <<csv_file, pc, sample_data, all_data, row_i, correct_predictions,
      console, uncaught>>
concVars == <<frames, overlapped>>
vars == <<globals, scorerVars, demoVars, concVars>>

-----------------------------------------------------------------------------
(* Scales and bounds *)

SCALE == 10000
PSCALE == 10000
ESCALE == 100000

\* how many changes a caller makes to its dict
MaxEdits == 1

\* how many data rows the CSV file has at most
MaxRows == 2

\* how many callers call the scorer at the same time
NumCallers == 2

-----------------------------------------------------------------------------
(* Module-level names: loan_predictor.py 12-30, streamlit_app.py 16-34 *)

FEATURES ==
    << "age", "campaign", "pdays", "previous", "contact_cellular",
       "month_mar", "month_oct", "default_no", "job_management",
       "job_technician", "marital_married", "education_university.degree",
       "housing_no", "loan_no" >>

FeatureNames == {FEATURES[i] : i \in 1..Len(FEATURES)}

COEFFICIENTS ==
    ("age" :> 393) @@ ("campaign" :> -2032) @@ ("pdays" :> -2790) @@
    ("previous" :> 1427) @@ ("contact_cellular" :> 4383) @@
    ("month_mar" :> 1977) @@ ("month_oct" :> 1847) @@
    ("default_no" :> 1843) @@ ("job_management" :> -175) @@
    ("job_technician" :> -91) @@ ("marital_married" :> -181) @@
    ("education_university.degree" :> 540) @@ ("housing_no" :> 93) @@
    ("loan_no" :> 198)

INTERCEPT == -3273

OPTIMAL_THRESHOLD == 6000

ModuleGlobals ==
    [COEFFICIENTS |-> COEFFICIENTS, INTERCEPT |-> INTERCEPT,
     OPTIMAL_THRESHOLD |-> OPTIMAL_THRESHOLD]

Modules == {"loan_predictor", "streamlit_app"}

-----------------------------------------------------------------------------
(* math.exp and the logistic function, line 112 / 43 *)

\* math.exp(x) raises OverflowError when e^x exceeds the largest double:
\* x > ln(1.797e308) = 709.7827...
EXP_OVERFLOW == 7097827

\* 1 + e is the double 1.0 when e <= 2^-53, that is e = exp(x), x <= -36.7368
ONE_ABSORB == 367368

\* ln 2, in units of 1e-6
LN2 == 693147

\* beyond |x| = 9.5 the fixed-point value of exp(x) is held at its value there
\* (the probability is then within one unit of 0 or 1)
XCLAMP == 95000

RECURSIVE Pow2(_)
Pow2(n) == IF n = 0 THEN 1 ELSE 2 * Pow2(n - 1)

\* sum of the terms r^k / k!, k = from..8, of exp(r); term is r^(from-1)/(from-1)!
RECURSIVE TaylorTail(_, _, _)
TaylorTail(r, term, from) ==
    IF from > 8 THEN 0
    ELSE LET t == (term * r) \div (from * SCALE)
         IN  t + TaylorTail(r, t, from + 1)

\* exp(x) in units of 1/ESCALE, x in units of 1/SCALE, |x| <= XCLAMP:
\* exp(x) = 2^n * exp(r) with x = n ln 2 + r, 0 <= r < ln 2
FxExp(x) ==
    LET n == (x * 100) \div LN2
        r == ((x * 100 - n * LN2) + 50) \div 100
        t == ESCALE + TaylorTail(r, ESCALE, 1)
    IN  IF n >= 0 THEN t * Pow2(n) ELSE t \div Pow2(-n)

Max(a, b) == IF a >= b THEN a ELSE b
Min(a, b) == IF a <= b THEN a ELSE b

\* math.exp(x): raises, or returns a double; value 0 stands for a double
\* of at most 2^-53 (which 1 + e absorbs), a positive value for a larger one
MathExp(x) ==
    IF x > EXP_OVERFLOW THEN [raised |-> TRUE, value |-> 0]
    ELSE IF x <= -ONE_ABSORB THEN [raised |-> FALSE, value |-> 0]
    ELSE [raised |-> FALSE,
          value |-> Max(1, FxExp(Max(-XCLAMP, Min(XCLAMP, x))))]

\* 1 / (1 + e), e in units of 1/ESCALE, as a probability
Logistic(e) ==
    IF e = 0 THEN PSCALE
    ELSE LET d == ESCALE + e
         IN  Max(1, Min(PSCALE - 1, (PSCALE * ESCALE + d \div 2) \div d))

-----------------------------------------------------------------------------
(* predict_loan_default *)

\* a default of 1 for an absent key
GetOrOne(data, feature) == IF feature \in DOMAIN data THEN data[feature] ELSE 1

\* customer_data.get(feature, 0)
Get(data, feature) == IF feature \in DOMAIN data THEN data[feature] ELSE 0

\* the body of the loop over COEFFICIENTS.items(): score += coefficient * value
Accumulate(g, data, score, i) ==
    score + g.COEFFICIENTS[FEATURES[i]] * Get(data, FEATURES[i])

\* the loop from its i-th iteration on
RECURSIVE LinearCombination(_, _, _, _)
LinearCombination(g, data, score, i) ==
    IF i > Len(FEATURES) THEN score
    ELSE LinearCombination(g, data, Accumulate(g, data, score, i), i + 1)

\* the accumulator started at 0, the intercept forgotten
ScoreNoIntercept(g, data) == LinearCombination(g, data, 0, 1)

\* score = INTERCEPT; for feature, coefficient in COEFFICIENTS.items(): ...
Score(g, data) == LinearCombination(g, data, g.INTERCEPT, 1)

\* a slip in the sign of the exponent: 1 / (1 + math.exp(score))
SigmoidNoNegate(score) ==
    LET e == MathExp(score)
    IN  IF e.raised THEN [raised |-> TRUE, probability |-> 0]
        ELSE [raised |-> FALSE, probability |-> Logistic(e.value)]

\* the complement form: 1 - 1 / (1 + math.exp(score))
SigmoidComplement(score) ==
    LET e == MathExp(score)
    IN  IF e.raised THEN [raised |-> TRUE, probability |-> 0]
        ELSE [raised |-> FALSE, probability |-> PSCALE - Logistic(e.value)]

\* probability = 1 / (1 + math.exp(-score)): raises what math.exp raises
Sigmoid(score) ==
    LET e == MathExp(-score)
    IN  IF e.raised THEN [raised |-> TRUE, probability |-> 0]
        ELSE [raised |-> FALSE, probability |-> Logistic(e.value)]

\* the comparison written >=
PredictionInclusive(probability, threshold) ==
    IF probability >= threshold THEN 1 ELSE 0

\* prediction = 1 if probability > OPTIMAL_THRESHOLD else 0
Prediction(probability, threshold) == IF probability > threshold THEN 1 ELSE 0

\* the ladder with its comparisons written <=
RiskLevelInclusive(probability) ==
    IF probability <= 2000 THEN "Low Risk"
    ELSE IF probability <= 5000 THEN "Medium Risk"
    ELSE IF probability <= 8000 THEN "High Risk"
    ELSE "Very High Risk"

\* the if / elif ladder of the risk level
RiskLevel(probability) ==
    IF probability < 2000 THEN "Low Risk"
    ELSE IF probability < 5000 THEN "Medium Risk"
    ELSE IF probability < 8000 THEN "High Risk"
    ELSE "Very High Risk"

\* the dashboard's colour, set in the same ladder
Color(probability) ==
    IF probability < 2000 THEN "green"
    ELSE IF probability < 5000 THEN "gold"
    ELSE IF probability < 8000 THEN "orange"
    ELSE "red"

\* loan_predictor.py: "REVIEW/REJECT" if prediction == 1 else "APPROVE"
Recommendation(prediction) ==
    IF prediction = 1 THEN "REVIEW/REJECT" ELSE "APPROVE"

\* streamlit_app.py: "REVIEW / REJECT" if prediction == 1 else "APPROVE"
AppRecommendation(prediction) ==
    IF prediction = 1 THEN "REVIEW / REJECT" ELSE "APPROVE"

Pending == [status |-> "pending"]
Raised(exception) == [status |-> "raised", exception |-> exception]

\* loan_predictor.predict_loan_default(customer_data), with the module's names g
predict_loan_default(g, data) ==
    LET score == Score(g, data)
        sigmoid == Sigmoid(score)
    IN  IF sigmoid.raised THEN Raised("OverflowError")
        ELSE LET probability == sigmoid.probability
                 prediction == Prediction(probability, g.OPTIMAL_THRESHOLD)
             IN  [status |-> "returned",
                  probability |-> probability,
                  predicted_default |-> prediction,
                  risk_level |-> RiskLevel(probability),
                  recommendation |-> Recommendation(prediction)]

\* streamlit_app.predict_loan_default(features): the tuple it returns
app_predict_loan_default(g, features) ==
    LET score == Score(g, features)
        sigmoid == Sigmoid(score)
    IN  IF sigmoid.raised THEN Raised("OverflowError")
        ELSE LET probability == sigmoid.probability
                 prediction == Prediction(probability, g.OPTIMAL_THRESHOLD)
             IN  [status |-> "returned",
                  probability |-> probability,
                  risk_level |-> RiskLevel(probability),
                  recommendation |-> AppRecommendation(prediction),
                  color |-> Color(probability)]

\* the scorer of module m
Scorer(m, g, data) ==
    IF m = "loan_predictor" THEN predict_loan_default(g, data)
    ELSE app_predict_loan_default(g, data)

-----------------------------------------------------------------------------
(* The callers and their dicts *)

\* demo(): the three hardcoded customers
John ==
    ("age" :> 45) @@ ("campaign" :> 1) @@ ("contact_cellular" :> 1) @@
    ("job_management" :> 1) @@ ("marital_married" :> 1) @@
    ("education_university.degree" :> 1) @@ ("default_no" :> 1) @@
    ("housing_no" :> 1) @@ ("loan_no" :> 1)

Sarah ==
    ("age" :> 28) @@ ("campaign" :> 3) @@ ("contact_cellular" :> 1) @@
    ("month_mar" :> 1) @@ ("job_technician" :> 1) @@ ("default_no" :> 1)

Mike ==
    ("age" :> 22) @@ ("campaign" :> 5) @@ ("contact_cellular" :> 1) @@
    ("month_oct" :> 1) @@ ("default_no" :> 0)

\* predict_new_customer()
NewCustomer ==
    ("age" :> 35) @@ ("campaign" :> 2) @@ ("contact_cellular" :> 1) @@
    ("job_management" :> 1) @@ ("marital_married" :> 1) @@
    ("education_university.degree" :> 1) @@ ("default_no" :> 1) @@
    ("housing_no" :> 1) @@ ("loan_no" :> 1)

\* the dashboard's form as it first renders (the widgets' defaults)
FormDefaults ==
    ("age" :> 35) @@ ("campaign" :> 2) @@ ("pdays" :> 999) @@
    ("previous" :> 0) @@ ("contact_cellular" :> 1) @@ ("month_mar" :> 0) @@
    ("month_oct" :> 0) @@ ("default_no" :> 1) @@ ("job_management" :> 0) @@
    ("job_technician" :> 0) @@ ("marital_married" :> 0) @@
    ("education_university.degree" :> 0) @@ ("housing_no" :> 1) @@
    ("loan_no" :> 1)

\* the number_input ranges of the form; a checkbox gives 0 or 1
WidgetRange(k) ==
    CASE k = "age" -> 18..100
      [] k = "campaign" -> 0..50
      [] k = "pdays" -> -1..999
      [] k = "previous" -> 0..20
      [] OTHER -> {0, 1}

\* the values the callers put in a dict
SampleValues == {-1, 0, 1, 5, 18, 100, 999, 1000, 3000}

\* the keys a caller of loan_predictor may use: the recognized ones and another
Keys == FeatureNames \cup {"foo"}

SetKey(data, k, v) ==
    [x \in (DOMAIN data) \cup {k} |-> IF x = k THEN v ELSE data[x]]

DelKey(data, k) == [x \in (DOMAIN data) \ {k} |-> data[x]]

\* the command-line program is not running
DemoIdle ==
    /\ csv_file = [exists |-> FALSE, readable |-> FALSE, header |-> {},
                   rows |-> << >>]
    /\ pc = "idle"
    /\ sample_data = << >>
    /\ all_data = << >>
    /\ row_i = 0
    /\ correct_predictions = 0
    /\ console = << >>
    /\ uncaught = ""

\* nobody calls concurrently
ConcIdle ==
    /\ frames = << >>
    /\ overlapped = FALSE

\* no single caller
ScorerIdle ==
    /\ module = "loan_predictor"
    /\ customer_data = << >>
    /\ result = Pending
    /\ prev = [customer_data |-> << >>, result |-> Pending]
    /\ nedits = 0

Init ==
    /\ globals = [m \in Modules |-> ModuleGlobals]
    /\ module \in Modules
    /\ customer_data \in
          IF module = "loan_predictor" THEN {John, Sarah, Mike, NewCustomer}
          ELSE {FormDefaults}
    /\ result = Pending
    /\ prev = [customer_data |-> customer_data, result |-> Pending]
    /\ nedits = 0
    /\ DemoIdle
    /\ ConcIdle

\* result = predict_loan_default(customer_data)
CallPredict ==
    /\ result.status = "pending"
    /\ result' = Scorer(module, globals[module], customer_data)
    /\ UNCHANGED <<globals, module, customer_data, prev, nedits, demoVars, concVars>>

\* a caller of loan_predictor builds its next dict: one key set
SetFeature(k, v) ==
    /\ module = "loan_predictor"
    /\ result.status # "pending"
    /\ nedits < MaxEdits
    /\ prev' = [customer_data |-> customer_data, result |-> result]
    /\ customer_data' = SetKey(customer_data, k, v)
    /\ result' = Pending
    /\ nedits' = nedits + 1
    /\ UNCHANGED <<globals, module, demoVars, concVars>>

\* a caller of loan_predictor builds its next dict: one key left out
DelFeature(k) ==
    /\ module = "loan_predictor"
    /\ result.status # "pending"
    /\ nedits < MaxEdits
    /\ k \in DOMAIN customer_data
    /\ prev' = [customer_data |-> customer_data, result |-> result]
    /\ customer_data' = DelKey(customer_data, k)
    /\ result' = Pending
    /\ nedits' = nedits + 1
    /\ UNCHANGED <<globals, module, demoVars, concVars>>

\* the dashboard's user changes one widget; the script builds features again
SetWidget(k, v) ==
    /\ module = "streamlit_app"
    /\ result.status # "pending"
    /\ nedits < MaxEdits
    /\ v \in WidgetRange(k)
    /\ prev' = [customer_data |-> customer_data, result |-> result]
    /\ customer_data' = SetKey(customer_data, k, v)
    /\ result' = Pending
    /\ nedits' = nedits + 1
    /\ UNCHANGED <<globals, module, demoVars, concVars>>

Next ==
    \/ CallPredict
    \/ \E k \in Keys, v \in SampleValues : SetFeature(k, v)
    \/ \E k \in Keys : DelFeature(k)
    \/ \E k \in FeatureNames, v \in SampleValues : SetWidget(k, v)

Spec == Init /\ [][Next]_vars

-----------------------------------------------------------------------------
(* The command-line program: demo_with_csv_data, demo, predict_new_customer *)

LabelColumn == "Loan_Status_label"
Columns == FeatureNames \cup {LabelColumn}

\* a cell of a csv.DictReader row: the text of a number, other text, or None
\* (the restval of a row shorter than the header)
Num(n) == [kind |-> "num", value |-> n]
Text == [kind |-> "text", value |-> 0]
None == [kind |-> "none", value |-> 0]

\* float(cell) and int(cell): the value, or the exception raised
Parsed(cell) ==
    CASE cell.kind = "num" -> [raised |-> "", value |-> cell.value]
      [] cell.kind = "text" -> [raised |-> "ValueError", value |-> 0]
      [] cell.kind = "none" -> [raised |-> "TypeError", value |-> 0]

\* row.get(column, 0)
RowGet(row, column) == IF column \in DOMAIN row THEN row[column] ELSE Num(0)

\* convert_csv_row_to_features(row): fourteen float(row.get(name, 0)), in the
\* order of the source; the first that fails raises
convert_csv_row_to_features(row) ==
    LET bad == {i \in 1..Len(FEATURES) :
                   Parsed(RowGet(row, FEATURES[i])).raised # ""}
    IN  IF bad # {}
        THEN LET first == CHOOSE i \in bad : \A j \in bad : i <= j
             IN  [raised |-> Parsed(RowGet(row, FEATURES[first])).raised,
                  features |-> << >>]
        ELSE [raised |-> "",
              features |-> [f \in FeatureNames |->
                               Parsed(RowGet(row, f)).value]]

\* the rows of the files considered
RowOf(data, label) ==
    [c \in Columns |-> IF c = LabelColumn THEN Num(label) ELSE Num(Get(data, c))]

GoodRows == {RowOf(d, l) : d \in {John, Mike}, l \in {0, 1}}

BadRows ==
    {[RowOf(John, 1) EXCEPT ![c] = cell] : c \in Columns, cell \in {Text, None}}

Headers == {Columns, Columns \ {"pdays"}}

RECURSIVE SeqsUpTo(_, _)
SeqsUpTo(S, n) ==
    IF n = 0 THEN {<< >>}
    ELSE LET shorter == SeqsUpTo(S, n - 1)
         IN  shorter \cup {Append(q, x) : q \in {t \in shorter : Len(t) = n - 1},
                                          x \in S}

CsvFiles ==
    {[exists |-> FALSE, readable |-> FALSE, header |-> {}, rows |-> << >>],
     [exists |-> TRUE, readable |-> FALSE, header |-> {}, rows |-> << >>]}
    \cup
    {[exists |-> TRUE, readable |-> TRUE, header |-> h,
      rows |-> [i \in 1..Len(q) |-> [c \in h |-> q[i][c]]]] :
        h \in Headers, q \in SeqsUpTo(GoodRows \cup BadRows, MaxRows)}

\* random.sample(all_data, k): k rows at distinct positions, in any order
Samples(rows, k) ==
    {[j \in 1..k |-> rows[pick[j]]] :
        pick \in {f \in [1..k -> 1..Len(rows)] :
                     \A a, b \in 1..k : a # b => f[a] # f[b]}}

\* the sample_size demo_with_csv_data passes
SampleSize == 5

InitDemo ==
    /\ globals = [m \in Modules |-> ModuleGlobals]
    /\ ScorerIdle
    /\ ConcIdle
    /\ csv_file \in CsvFiles
    /\ pc = "demo_with_csv_data"
    /\ sample_data = << >>
    /\ all_data = << >>
    /\ row_i = 0
    /\ correct_predictions = 0
    /\ console = << >>
    /\ uncaught = ""

\* an exception nothing catches: the traceback, and the program ends
Abort(exception) ==
    /\ pc' = "aborted"
    /\ uncaught' = exception
    /\ UNCHANGED <<csv_file, sample_data, all_data, row_i, correct_predictions,
                   console>>

\* load_csv_data('loan_detection.csv', sample_size=5) and the test of what it
\* returned: lines 43-61 and 187-192
LoadCsvData ==
    /\ pc = "demo_with_csv_data"
    /\ IF ~csv_file.exists
       THEN /\ console' = console \o <<"csv_not_found", "using_demo_data">>
            /\ pc' = "demo"
            /\ UNCHANGED <<sample_data, all_data>>
       ELSE IF ~csv_file.readable
       THEN /\ console' = console \o <<"csv_error", "using_demo_data">>
            /\ pc' = "demo"
            /\ UNCHANGED <<sample_data, all_data>>
       ELSE /\ all_data' = csv_file.rows
            /\ sample_data' \in
                  Samples(csv_file.rows, Min(SampleSize, Len(csv_file.rows)))
            /\ IF Len(csv_file.rows) = 0
               THEN /\ console' = console \o <<"loaded", "using_demo_data">>
                    /\ pc' = "demo"
               ELSE /\ console' = console \o <<"loaded", "csv_table">>
                    /\ pc' = "rows"
    /\ row_i' = 1
    /\ UNCHANGED <<globals, scorerVars, concVars, csv_file,
                   correct_predictions, uncaught>>

\* one turn of the loop over sample_data: lines 201-225
ProcessRow ==
    /\ pc = "rows"
    /\ row_i <= Len(sample_data)
    /\ LET row == sample_data[row_i]
           conv == convert_csv_row_to_features(row)
           res == predict_loan_default(globals["loan_predictor"], conv.features)
           actual == Parsed(RowGet(row, LabelColumn))
       IN  IF conv.raised # "" THEN Abort(conv.raised)
           ELSE IF res.status = "raised" THEN Abort(res.exception)
           ELSE IF actual.raised # "" THEN Abort(actual.raised)
           ELSE /\ correct_predictions' =
                      IF res.predicted_default = actual.value
                      THEN correct_predictions + 1 ELSE correct_predictions
                /\ row_i' = row_i + 1
                /\ console' = Append(console, "row")
                /\ UNCHANGED <<csv_file, pc, sample_data, all_data, uncaught>>
    /\ UNCHANGED <<globals, scorerVars, concVars>>

\* after the loop: the sample accuracy and the statistics of all_data,
\* lines 227-244: int(label) of every row, int(float(age)) of every row
\* whose age cell is not empty
DatasetStatistics ==
    /\ pc = "rows"
    /\ row_i > Len(sample_data)
    /\ LET badLabel == {i \in 1..Len(all_data) :
                           Parsed(RowGet(all_data[i], LabelColumn)).raised # ""}
           badAge == {i \in 1..Len(all_data) :
                         /\ "age" \in DOMAIN all_data[i]
                         /\ all_data[i]["age"].kind = "text"}
       IN  IF badLabel # {}
           THEN LET first == CHOOSE i \in badLabel : \A j \in badLabel : i <= j
                IN  Abort(Parsed(RowGet(all_data[first], LabelColumn)).raised)
           ELSE IF badAge # {} THEN Abort("ValueError")
           ELSE /\ pc' = "predict_new_customer"
                /\ console' = console \o <<"accuracy", "statistics">>
                /\ UNCHANGED <<csv_file, sample_data, all_data, row_i,
                               correct_predictions, uncaught>>
    /\ UNCHANGED <<globals, scorerVars, concVars>>

\* demo(): the three hardcoded customers scored and printed
Demo ==
    /\ pc = "demo"
    /\ LET results == [i \in 1..3 |->
                          predict_loan_default(globals["loan_predictor"],
                                               <<John, Sarah, Mike>>[i])]
       IN  IF \E i \in 1..3 : results[i].status = "raised"
           THEN Abort("OverflowError")
           ELSE /\ pc' = "predict_new_customer"
                /\ console' = Append(console, "demo_table")
                /\ UNCHANGED <<csv_file, sample_data, all_data, row_i,
                               correct_predictions, uncaught>>
    /\ UNCHANGED <<globals, scorerVars, concVars>>

\* predict_new_customer(), then the closing lines of __main__
PredictNewCustomer ==
    /\ pc = "predict_new_customer"
    /\ LET res == predict_loan_default(globals["loan_predictor"], NewCustomer)
       IN  IF res.status = "raised" THEN Abort(res.exception)
           ELSE /\ pc' = "done"
                /\ console' = Append(console, "new_customer")
                /\ UNCHANGED <<csv_file, sample_data, all_data, row_i,
                               correct_predictions, uncaught>>
    /\ UNCHANGED <<globals, scorerVars, concVars>>

NextDemo ==
    \/ LoadCsvData
    \/ ProcessRow
    \/ DatasetStatistics
    \/ Demo
    \/ PredictNewCustomer

SpecDemo == InitDemo /\ [][NextDemo]_vars

-----------------------------------------------------------------------------
(* Concurrent calls of loan_predictor.predict_loan_default: each call runs  *)
(* the statements of lines 105-135 on its own locals, one loop turn a step, *)
(* interleaved in any order with the other calls                            *)

Callers == 1..NumCallers

\* the dicts the concurrent callers pass
ConcurrentInputs == {John, Sarah, Mike}

InitConc ==
    /\ globals = [m \in Modules |-> ModuleGlobals]
    /\ ScorerIdle
    /\ DemoIdle
    /\ frames \in [Callers ->
                     {[pc |-> "call", given |-> d, customer_data |-> d,
                       score |-> 0, i |-> 0, ret |-> Pending] :
                         d \in ConcurrentInputs}]
    /\ overlapped = FALSE

\* a step of caller c happens while another call is between entry and return
Overlaps(c) ==
    overlapped' =
       (overlapped \/ \E o \in Callers \ {c} : frames[o].pc = "loop")

\* score = INTERCEPT, line 105
Enter(c) ==
    /\ frames[c].pc = "call"
    /\ frames' = [frames EXCEPT ![c].pc = "loop",
                                ![c].score = globals["loan_predictor"].INTERCEPT,
                                ![c].i = 1]
    /\ Overlaps(c)
    /\ UNCHANGED <<globals, scorerVars, demoVars>>

\* the loop turn with the accumulator kept in the module-level INTERCEPT
LoopStepGlobalAccumulator(c) ==
    /\ frames[c].pc = "loop"
    /\ frames[c].i <= Len(FEATURES)
    /\ LET g == globals["loan_predictor"]
           total == Accumulate(g, frames[c].customer_data, g.INTERCEPT,
                               frames[c].i)
       IN  /\ globals' = [globals EXCEPT !["loan_predictor"].INTERCEPT = total]
           /\ frames' = [frames EXCEPT ![c].score = total,
                                       ![c].i = frames[c].i + 1]
    /\ Overlaps(c)
    /\ UNCHANGED <<scorerVars, demoVars>>

\* one turn of the loop, lines 107-109
LoopStep(c) ==
    /\ frames[c].pc = "loop"
    /\ frames[c].i <= Len(FEATURES)
    /\ frames' = [frames EXCEPT
                     ![c].score = Accumulate(globals["loan_predictor"],
                                             frames[c].customer_data,
                                             frames[c].score, frames[c].i),
                     ![c].i = frames[c].i + 1]
    /\ Overlaps(c)
    /\ UNCHANGED <<globals, scorerVars, demoVars>>

\* after the loop: the probability, the decision, the tier, the
\* recommendation and the return, lines 111-135
Return(c) ==
    /\ frames[c].pc = "loop"
    /\ frames[c].i > Len(FEATURES)
    /\ LET sigmoid == Sigmoid(frames[c].score)
           probability == sigmoid.probability
           prediction ==
              Prediction(probability,
                         globals["loan_predictor"].OPTIMAL_THRESHOLD)
       IN  frames' = [frames EXCEPT
              ![c].pc = "done",
              ![c].ret =
                 IF sigmoid.raised THEN Raised("OverflowError")
                 ELSE [status |-> "returned",
                       probability |-> probability,
                       predicted_default |-> prediction,
                       risk_level |-> RiskLevel(probability),
                       recommendation |-> Recommendation(prediction)]]
    /\ Overlaps(c)
    /\ UNCHANGED <<globals, scorerVars, demoVars>>

NextConc ==
    \E c \in Callers :
       \/ Enter(c)
       \/ LoopStep(c)
       \/ Return(c)

SpecConc == InitConc /\ [][NextConc]_vars

-----------------------------------------------------------------------------
(* Properties of the scorer, checked under Spec *)

Returned == result.status = "returned"

\* the four bands as the specification words them
LadderTier(p) ==
    CASE p < 2000 -> "Low Risk"
      [] 2000 <= p /\ p < 5000 -> "Medium Risk"
      [] 5000 <= p /\ p < 8000 -> "High Risk"
      [] p >= 8000 -> "Very High Risk"

\* the probabilities at and next to the bounds of the bands and of the decision
BoundaryProbabilities ==
    {0, 1, 1999, 2000, 2001, 4999, 5000, 5001, 5999, 6000, 6001,
     7999, 8000, 8001, PSCALE - 1, PSCALE}

\* the decision behind a result: the dashboard returns only the recommendation
DecisionOf(r) ==
    IF "predicted_default" \in DOMAIN r THEN r.predicted_default
    ELSE IF r.recommendation = "APPROVE" THEN 0 ELSE 1

TierRank(level) ==
    CASE level = "Low Risk" -> 1
      [] level = "Medium Risk" -> 2
      [] level = "High Risk" -> 3
      [] level = "Very High Risk" -> 4

\* C1: the risk tier of every probability a call computes is the one the
\* half-open ladder gives: below 0.2 Low, [0.2, 0.5) Medium, [0.5, 0.8) High,
\* 0.8 and above Very High; 0.2 itself is Medium, 0.5 High, 0.8 Very High.
C1_RiskTierLadder ==
    /\ Returned => result.risk_level = LadderTier(result.probability)
    /\ \A p \in BoundaryProbabilities : RiskLevel(p) = LadderTier(p)
    /\ RiskLevel(2000) = "Medium Risk"
    /\ RiskLevel(5000) = "High Risk"
    /\ RiskLevel(8000) = "Very High Risk"

\* a call has returned a probability in the second band, and Medium Risk
C1_Witness ==
    /\ Returned
    /\ result.probability >= 2000 /\ result.probability < 5000
    /\ result.risk_level = "Medium Risk"

\* C2: the decision is 1 exactly when the probability is strictly above 0.6;
\* a probability of exactly 0.6 gives 0, anything above gives 1.
C2_StrictThreshold ==
    /\ Returned => (DecisionOf(result) = 1 <=> result.probability > 6000)
    /\ Returned => DecisionOf(result) \in {0, 1}
    /\ \A m \in Modules :
          /\ Prediction(6000, globals[m].OPTIMAL_THRESHOLD) = 0
          /\ \A p \in BoundaryProbabilities :
                Prediction(p, globals[m].OPTIMAL_THRESHOLD)
                   = IF p > 6000 THEN 1 ELSE 0

\* a call of loan_predictor has returned decision 1 for a probability above 0.6
C2_Witness ==
    /\ Returned
    /\ module = "loan_predictor"
    /\ result.probability > 6000
    /\ result.predicted_default = 1

\* C3 (as claimed): every result of either scorer carries "REVIEW/REJECT"
\* when the decision is 1 and "APPROVE" when it is 0, and no other string.
C3_RecommendationStrings ==
    Returned =>
       /\ result.recommendation \in {"APPROVE", "REVIEW/REJECT"}
       /\ result.probability > 6000 => result.recommendation = "REVIEW/REJECT"
       /\ result.probability <= 6000 => result.recommendation = "APPROVE"

\* C4: a recognized key that is absent counts as 0 and an unrecognized key is
\* ignored: adding or removing an unrecognized key, or writing an explicit 0
\* for an absent recognized key, leaves the whole result unchanged.
C4_AbsentAndUnknownKeys ==
    ( /\ result.status # "pending"
      /\ prev.result.status # "pending"
      /\ \/ /\ DOMAIN customer_data = DOMAIN prev.customer_data \cup {"foo"}
            /\ \A f \in DOMAIN prev.customer_data \ {"foo"} :
                  customer_data[f] = prev.customer_data[f]
         \/ /\ DOMAIN prev.customer_data = DOMAIN customer_data \cup {"foo"}
            /\ \A f \in DOMAIN customer_data \ {"foo"} :
                  customer_data[f] = prev.customer_data[f]
         \/ \E k \in FeatureNames \ DOMAIN prev.customer_data :
               customer_data = SetKey(prev.customer_data, k, 0)
         \/ \E k \in FeatureNames \ DOMAIN customer_data :
               prev.customer_data = SetKey(customer_data, k, 0) )
    => result = prev.result

\* the second call's dict is the first one's with an explicit 0 for a
\* recognized key the first left out, and both calls returned
C4_Witness ==
    /\ Returned
    /\ prev.result.status = "returned"
    /\ \E k \in FeatureNames \ DOMAIN prev.customer_data :
          customer_data = SetKey(prev.customer_data, k, 0)

\* C5 (as claimed): no call raises; an extreme weighted sum saturates the
\* probability to 0 or 1 instead.
C5_NeverRaises == result.status # "raised"

\* d2 is d1 with the value of recognized feature k changed, nothing else
DiffersOnlyIn(d1, d2, k) ==
    /\ \A x \in (DOMAIN d1 \cup DOMAIN d2) \ {k} :
          x \in DOMAIN d1 /\ x \in DOMAIN d2 /\ d1[x] = d2[x]
    /\ Get(d1, k) # Get(d2, k)

\* r2 is nowhere below r1: probability, tier and decision
NotBelow(r1, r2) ==
    /\ r2.probability >= r1.probability
    /\ TierRank(r2.risk_level) >= TierRank(r1.risk_level)
    /\ DecisionOf(r2) >= DecisionOf(r1)

\* C7: of two dicts that differ only in one recognized feature, the one with
\* the larger value has no smaller probability (tier, decision) when the
\* feature's coefficient is positive, and no larger one when it is negative.
C7_Monotone ==
    (Returned /\ prev.result.status = "returned") =>
       \A k \in FeatureNames :
          DiffersOnlyIn(prev.customer_data, customer_data, k) =>
             LET up == Get(customer_data, k) > Get(prev.customer_data, k)
                 positive == COEFFICIENTS[k] > 0
             IN  /\ COEFFICIENTS[k] # 0
                 /\ (up <=> positive) => NotBelow(prev.result, result)
                 /\ (up <=> ~positive) => NotBelow(result, prev.result)

\* a feature with a positive coefficient was raised and the probability rose
C7_Witness ==
    /\ Returned
    /\ prev.result.status = "returned"
    /\ \E k \in FeatureNames :
          /\ DiffersOnlyIn(prev.customer_data, customer_data, k)
          /\ COEFFICIENTS[k] > 0
          /\ Get(customer_data, k) > Get(prev.customer_data, k)
          /\ result.probability > prev.result.probability

JohnScored ==
    /\ module = "loan_predictor"
    /\ customer_data = John
    /\ Returned

\* C8 (as claimed): the demo's first customer has linear score 1.8926,
\* probability 0.8691, "Very High Risk", decision 1, "REVIEW/REJECT".
C8_DemoCustomerAsClaimed ==
    JohnScored =>
       /\ Score(globals[module], customer_data) = 18926
       /\ result.probability = 8691
       /\ result.risk_level = "Very High Risk"
       /\ result.predicted_default = 1
       /\ result.recommendation = "REVIEW/REJECT"

\* C8 (amended): the demo's first customer has linear score 1.9081,
\* probability 0.8708, "Very High Risk", decision 1, "REVIEW/REJECT".
C8_DemoCustomer ==
    JohnScored =>
       /\ Score(globals[module], customer_data) = 19081
       /\ result.probability = 8708
       /\ result.risk_level = "Very High Risk"
       /\ result.predicted_default = 1
       /\ result.recommendation = "REVIEW/REJECT"

\* the call on the demo's first customer has returned
C8_Witness == JohnScored /\ result.probability > 8000

\* C9 (as claimed): every probability returned is strictly between 0 and 1.
C9_StrictlyInside ==
    Returned => (0 < result.probability /\ result.probability < PSCALE)

\* C9 (amended): every probability returned is above 0 and at most 1, and it
\* is exactly 1 when the weighted sum is about 36.74 or more.
C9_HalfOpen ==
    Returned =>
       /\ 0 < result.probability
       /\ result.probability <= PSCALE
       /\ result.probability = PSCALE
             <=> Score(globals[module], customer_data) >= ONE_ABSORB

\* a call has returned the probability 1.0 exactly
C9_Witness == Returned /\ result.probability = PSCALE

-----------------------------------------------------------------------------
(* Properties of the command-line program, checked under SpecDemo *)

\* the data source fails: no file, a file that cannot be read, or a row with
\* a cell of a recognized feature column or of the label column that is not
\* a number (a short row leaves None there)
DataSourceFails ==
    \/ ~csv_file.exists
    \/ ~csv_file.readable
    \/ \E i \in 1..Len(csv_file.rows) :
          \E c \in DOMAIN csv_file.rows[i] : csv_file.rows[i][c].kind # "num"

InConsole(tag) == \E i \in 1..Len(console) : console[i] = tag

\* C6 (as claimed): when the data source fails, the error is reported and the
\* batch demo falls back to the hardcoded examples; it does not end with an
\* unhandled error.
C6_FallsBackOnDataError ==
    DataSourceFails =>
       /\ pc # "aborted"
       /\ pc \in {"predict_new_customer", "done"} => InConsole("demo_table")

-----------------------------------------------------------------------------
(* Properties of concurrent calls, checked under SpecConc *)

\* C10: a call changes neither the module-level names nor the caller's
\* dict, and whatever the interleaving, each call returns what the call
\* alone returns on its dict; two calls on the same dict return the same.
C10_PureUnderInterleaving ==
    /\ globals = [m \in Modules |-> ModuleGlobals]
    /\ \A c \in DOMAIN frames :
          /\ frames[c].customer_data = frames[c].given
          /\ frames[c].pc = "done" =>
                frames[c].ret = predict_loan_default(ModuleGlobals,
                                                     frames[c].given)
    /\ \A c, d \in DOMAIN frames :
          (/\ frames[c].pc = "done" /\ frames[d].pc = "done"
           /\ frames[c].given = frames[d].given)
          => frames[c].ret = frames[d].ret

\* every call has returned, two of them overlapped, two were on the same dict
\* and two on different ones
C10_Witness ==
    /\ frames # << >>
    /\ \A c \in DOMAIN frames : frames[c].ret.status = "returned"
    /\ overlapped
    /\ \E c, d \in DOMAIN frames : c # d /\ frames[c].given = frames[d].given

====
